---- MODULE Spec2Model ----
(***************************************************************************)
(* Model of src/app.py: the motorcycle rating service.                     *)
(*                                                                         *)
(*   predict_rating         feature transform + model call + clip/round    *)
(*   extract_data_from_url  fetch, text normalisation, regex extraction,   *)
(*                          Complete / Partial / Error classification      *)
(*   predict_from_url       GET  /predict/url                              *)
(*   predict_manual         POST /predict/manual                           *)
(*                                                                         *)
(* Text is a sequence of characters.  Hebrew letters are written by their  *)
(* Unicode names: "mem" is HEBREW LETTER MEM, "shekel" is NEW SHEQEL SIGN, *)
(* "gershayim"/"geresh" the Hebrew punctuation, "rlm"/"lrm" the marks      *)
(* U+200F/U+200E.                                                          *)
(***************************************************************************)
EXTENDS Integers, Sequences, FiniteSets

VARIABLES
    maxPrice,   \* df["price"].max(), read once at import
    pc,         \* position of the request being served
    path,       \* "url" or "manual": which endpoint serves it
    page,       \* visible text of the page behind the link (URL path)
    body,       \* JSON body of the manual request
    fetches,    \* requests.get calls made for this request
    fetched,    \* "no", "ok" or "failed": how the fetch ended
    partial_data, \* the dict of line 154, once that line is reached
    result,     \* what extract_data_from_url returned
    calls,      \* argument tuples predict_rating was invoked with
    data,       \* the array handed to model.predict
    response    \* what the endpoint answered

vars == <<maxPrice, pc, path, page, body, fetches, fetched, partial_data, result,
          calls, data, response>>

-----------------------------------------------------------------------------
(* Bounds of the model *)

\* longest run of whitespace between a label and its value on a page
MaxGap == 1

-----------------------------------------------------------------------------
(* Characters *)

Digit == {"0", "1", "2", "3", "4", "5", "6", "7", "8", "9"}

\* \s
Space == {" ", "\n", "\t"}

RECURSIVE DigitVal(_, _)
DigitVal(c, n) ==
    IF c = <<"0","1","2","3","4","5","6","7","8","9">>[n + 1] THEN n
    ELSE DigitVal(c, n + 1)

-----------------------------------------------------------------------------
(* Regular expressions: syntax *)

Lit(c) == [t |-> "lit", c |-> c]
Cls(S) == [t |-> "cls", s |-> S]
AnyChar == [t |-> "any"]
Cat(rs) == [t |-> "cat", rs |-> rs]
Alt(rs) == [t |-> "alt", rs |-> rs]
\* greedy r{lo,hi}; hi = -1 is "no upper limit"
Rep(r, lo, hi) == [t |-> "rep", r |-> r, lo |-> lo, hi |-> hi]
Star(r) == Rep(r, 0, -1)
Plus(r) == Rep(r, 1, -1)
Opt(r) == Rep(r, 0, 1)
\* the capturing group, group(1)
Grp(r) == [t |-> "grp", r |-> r]
RECURSIVE Lits(_)
Lits(w) == IF w = <<>> THEN <<>> ELSE <<Lit(Head(w))>> \o Lits(Tail(w))
Word(w) == Cat(Lits(w))

(* Regular expressions: backtracking matcher.  A match state is            *)
(* <<position, group start, group end>>; Match returns every way r can     *)
(* match at st, in the order the backtracking engine tries them, so the    *)
(* head of the list is the match re reports.                               *)
RECURSIVE Match(_, _, _)
RECURSIVE MatchCat(_, _, _, _)
RECURSIVE CatCont(_, _, _, _, _)
RECURSIVE MatchAlt(_, _, _, _)
RECURSIVE MatchRep(_, _, _, _, _)
RECURSIVE RepCont(_, _, _, _, _, _, _)

RECURSIVE MarkGroup(_, _)
MarkGroup(res, from) ==
    IF res = <<>> THEN <<>>
    ELSE << <<Head(res)[1], from, Head(res)[1]>> >> \o MarkGroup(Tail(res), from)

Match(r, s, st) ==
    CASE r.t = "lit" ->
            IF st[1] <= Len(s) /\ s[st[1]] = r.c
            THEN << <<st[1] + 1, st[2], st[3]>> >> ELSE <<>>
      [] r.t = "cls" ->
            IF st[1] <= Len(s) /\ s[st[1]] \in r.s
            THEN << <<st[1] + 1, st[2], st[3]>> >> ELSE <<>>
      [] r.t = "any" ->
            IF st[1] <= Len(s) /\ s[st[1]] # "\n"
            THEN << <<st[1] + 1, st[2], st[3]>> >> ELSE <<>>
      [] r.t = "cat" -> MatchCat(r.rs, 1, s, st)
      [] r.t = "alt" -> MatchAlt(r.rs, 1, s, st)
      [] r.t = "rep" -> MatchRep(r.r, r.lo, r.hi, s, st)
      [] r.t = "grp" ->
            MarkGroup(Match(r.r, s, st), st[1])

MatchCat(rs, k, s, st) ==
    IF k > Len(rs) THEN <<st>>
    ELSE CatCont(Match(rs[k], s, st), 1, rs, k, s)

CatCont(res, i, rs, k, s) ==
    IF i > Len(res) THEN <<>>
    ELSE MatchCat(rs, k + 1, s, res[i]) \o CatCont(res, i + 1, rs, k, s)

MatchAlt(rs, k, s, st) ==
    IF k > Len(rs) THEN <<>>
    ELSE Match(rs[k], s, st) \o MatchAlt(rs, k + 1, s, st)

MatchRep(r, lo, hi, s, st) ==
    (IF hi = 0 THEN <<>> ELSE RepCont(Match(r, s, st), 1, r, lo, hi, s, st))
    \o (IF lo <= 0 THEN <<st>> ELSE <<>>)

RepCont(res, i, r, lo, hi, s, st) ==
    IF i > Len(res) THEN <<>>
    ELSE (IF res[i][1] > st[1]
          THEN MatchRep(r, lo - 1, hi - 1, s, res[i]) ELSE <<>>)
         \o RepCont(res, i + 1, r, lo, hi, s, st)

NoMatch == [found |-> FALSE, group |-> <<>>]

RECURSIVE SearchFrom(_, _, _)
SearchFrom(p, s, i) ==
    IF i > Len(s) + 1 THEN NoMatch
    ELSE LET res == Match(p, s, <<i, 0, 0>>)
         IN  IF res # <<>>
             THEN [found |-> TRUE, group |-> SubSeq(s, res[1][2], res[1][3] - 1)]
             ELSE SearchFrom(p, s, i + 1)

\* re.search(p, text): the leftmost match, m.group(1) in .group
Search(p, s) == SearchFrom(p, s, 1)

-----------------------------------------------------------------------------
(* Text normaliser: extract_data_from_url, lines 133-138 *)

RECURSIVE StripLeft(_)
StripLeft(s) ==
    IF s # <<>> /\ Head(s) \in Space THEN StripLeft(Tail(s)) ELSE s

RECURSIVE StripRight(_)
StripRight(s) ==
    IF s # <<>> /\ s[Len(s)] \in Space
    THEN StripRight(SubSeq(s, 1, Len(s) - 1)) ELSE s

\* soup.get_text(" ", strip=True) of a page whose visible text is one string
get_text(s) == StripRight(StripLeft(s))

\* re.sub(r'[‏‎]', '', text)
RECURSIVE DropMarks(_)
DropMarks(s) ==
    IF s = <<>> THEN <<>>
    ELSE IF Head(s) \in {"rlm", "lrm"} THEN DropMarks(Tail(s))
    ELSE <<Head(s)>> \o DropMarks(Tail(s))

\* re.sub(r'\s+', ' ', text)
RECURSIVE CollapseSpace(_)
CollapseSpace(s) ==
    IF s = <<>> THEN <<>>
    ELSE IF Head(s) \in Space
         THEN <<" ">> \o CollapseSpace(StripLeft(s))
         ELSE <<Head(s)>> \o CollapseSpace(Tail(s))

\* .replace(gershayim, '"').replace(geresh, "'").replace('.', ',')
ReplaceChar(c) ==
    CASE c = "gershayim" -> "\""
      [] c = "geresh" -> "'"
      [] c = "." -> ","
      [] OTHER -> c

RECURSIVE ReplaceAll(_)
ReplaceAll(s) ==
    IF s = <<>> THEN <<>> ELSE <<ReplaceChar(Head(s))>> \o ReplaceAll(Tail(s))

Normalize(raw) == ReplaceAll(CollapseSpace(DropMarks(get_text(raw))))

-----------------------------------------------------------------------------
(* Field extraction: extract_data_from_url, lines 140-152 *)

None == [k |-> "None", v |-> 0]
IntVal(n) == [k |-> "int", v |-> n]
Raise(e) == [k |-> "raise", v |-> 0, exc |-> e]

\* re.sub(r'\D', '', s)
RECURSIVE OnlyDigits(_)
OnlyDigits(s) ==
    IF s = <<>> THEN <<>>
    ELSE IF Head(s) \in Digit THEN <<Head(s)>> \o OnlyDigits(Tail(s))
    ELSE OnlyDigits(Tail(s))

RECURSIVE Decimal(_)
Decimal(ds) ==
    IF ds = <<>> THEN 0
    ELSE 10 * Decimal(SubSeq(ds, 1, Len(ds) - 1)) + DigitVal(ds[Len(ds)], 0)

\* int(s): the empty string is not a number
int(ds) == IF ds = <<>> THEN Raise("ValueError") ELSE IntVal(Decimal(ds))

\* def extract(patterns): the first pattern that matches decides
RECURSIVE extractFrom(_, _, _)
extractFrom(patterns, i, text) ==
    IF i > Len(patterns) THEN None
    ELSE LET m == Search(patterns[i], text)
         IN  IF m.found THEN int(OnlyDigits(m.group))
             ELSE extractFrom(patterns, i + 1, text)

extract(patterns, text) == extractFrom(patterns, 1, text)

LabelSep == Star(Cls({":"} \cup Space))
Spaces == Star(Cls(Space))
\* \d{1,3}(?:,\d{3})*
Grouped == Cat(<<Rep(Cls(Digit), 1, 3),
                 Star(Cat(<<Lit(","), Rep(Cls(Digit), 3, 3)>>))>>)

\* r'MEHIR[:\s]*([\d,]+)\s*SHEKEL?', r'([\d,]+)\s*SHEKEL'
PricePatterns ==
    << Cat(<<Word(<<"mem", "het", "yod", "resh">>), LabelSep,
             Grp(Plus(Cls(Digit \cup {","}))), Spaces, Opt(Lit("shekel"))>>),
       Cat(<<Grp(Plus(Cls(Digit \cup {","}))), Spaces, Lit("shekel")>>) >>

\* r'SHANA[:\s]*(20\d{2})'
YearPatterns ==
    << Cat(<<Word(<<"shin", "nun", "he">>), LabelSep,
             Grp(Cat(<<Lit("2"), Lit("0"), Rep(Cls(Digit), 2, 2)>>))>>) >>

\* r'(?:Q.?YLWM.?|MERHAQ|NESIA)[:\s]*(\d{1,3}(?:,\d{3})*)',
\* r'(\d{1,3}(?:,\d{3})*)\s*(?:Q.?\"?M)'
KmPatterns ==
    << Cat(<<Alt(<<Cat(<<Lit("qof"), Opt(AnyChar),
                         Word(<<"yod", "lamed", "vav", "mem">>), Opt(AnyChar)>>),
                   Word(<<"mem", "resh", "het", "qof">>),
                   Word(<<"nun", "samekh", "yod", "ayin", "he">>)>>),
             LabelSep, Grp(Grouped)>>),
       Cat(<<Grp(Grouped), Spaces,
             Cat(<<Lit("qof"), Opt(AnyChar), Opt(Lit("\"")), Lit("mem")>>)>>) >>

\* r'NEFAH\s*MANOA[:\s]*(\d{2,4})', r'(\d{2,4})\s*SM'
EnginePatterns ==
    << Cat(<<Word(<<"nun", "pe", "het">>), Spaces,
             Word(<<"mem", "nun", "vav", "ayin">>), LabelSep,
             Grp(Rep(Cls(Digit), 2, 4))>>),
       Cat(<<Grp(Rep(Cls(Digit), 2, 4)), Spaces,
             Word(<<"samekh", "mem">>)>>) >>

\* r'YAD\s*(\d)'
HandPattern ==
    Cat(<<Word(<<"yod", "dalet">>), Spaces, Grp(Cls(Digit))>>)

hand_of(text) ==
    LET hand_match == Search(HandPattern, text)
    IN  IF hand_match.found THEN int(hand_match.group) ELSE None

-----------------------------------------------------------------------------
(* Classification: extract_data_from_url, lines 154-164 *)

Keys == {"year", "engine_cc", "hand", "km", "price"}

NoData == [key \in Keys |-> None]

\* partial_data before line 154 has run
Unbound == [key \in Keys |-> [k |-> "unbound", v |-> 0]]

NoResult == [kind |-> "none", data |-> NoData, error |-> "", exc |-> ""]

\* Classify with the second test of line 156 left out
Classify_AnyMissing(d) ==
    LET missing == {key \in Keys : d[key] = None}
    IN  IF missing # {}
        THEN [kind |-> "partial", data |-> d, error |-> "", exc |-> ""]
        ELSE [kind |-> "complete", data |-> d, error |-> "", exc |-> ""]

\* lines 154-161, d being partial_data.  missing lists key names, which are
\* non-empty strings, so any(missing) says that the list is not empty.
Classify(d) ==
    LET missing == {key \in Keys : d[key] = None}
    IN  IF missing # {} /\ (\E key \in Keys : d[key] # None)
        THEN [kind |-> "partial", data |-> d, error |-> "", exc |-> ""]
        ELSE IF \A key \in Keys : d[key] # None
        THEN [kind |-> "complete", data |-> d, error |-> "", exc |-> ""]
        ELSE [kind |-> "error", data |-> NoData,
              error |-> "No valid fields found.", exc |-> ""]

\* lines 163-164: except Exception as e
ScrapingFailed(e) ==
    [kind |-> "error", data |-> NoData, error |-> "Scraping failed", exc |-> e]

\* lines 154-164 once the five right-hand sides of lines 147-152 are known;
\* the fields are read in the order price, year, km, engine_cc, hand and the
\* first exception ends the try block
Outcome(price, year, km, engine_cc, hand) ==
    LET failed(e) == [partial_data |-> Unbound, result |-> ScrapingFailed(e)]
        d == [year |-> year, engine_cc |-> engine_cc, hand |-> hand,
              km |-> km, price |-> price]
    IN  IF price.k = "raise" THEN failed(price.exc)
        ELSE IF year.k = "raise" THEN failed(year.exc)
        ELSE IF km.k = "raise" THEN failed(km.exc)
        ELSE IF engine_cc.k = "raise" THEN failed(engine_cc.exc)
        ELSE IF hand.k = "raise" THEN failed(hand.exc)
        ELSE [partial_data |-> d, result |-> Classify(d)]

\* lines 147-161 on the normalised text
extract_all(text) ==
    Outcome(extract(PricePatterns, text), extract(YearPatterns, text),
            extract(KmPatterns, text), extract(EnginePatterns, text),
            hand_of(text))

\* lines 133-164 on the fetched page
try_block(raw) == extract_all(Normalize(raw))

-----------------------------------------------------------------------------
(* Core prediction logic: predict_rating, lines 114-124 *)

ReferenceYear == 2025

Max(a, b) == IF a >= b THEN a ELSE b

\* a / b on Python numbers, kept as the exact quotient
Quot(a, b) == [f |-> "div", num |-> a, den |-> b]
\* np.log1p(x)
Log1p(x) == [f |-> "log1p", x |-> x]

\* Features with the per-year ratios divided by age itself
Features_DivideByAge(a, max_price) ==
    IF \E key \in {"year", "km", "price", "engine_cc"} : a[key].k # "int"
    THEN [ok |-> FALSE, exc |-> "TypeError", data |-> <<>>]
    ELSE IF a.engine_cc.v = 0 \/ ReferenceYear - a.year.v = 0
    THEN [ok |-> FALSE, exc |-> "ZeroDivisionError", data |-> <<>>]
    ELSE LET age == ReferenceYear - a.year.v
         IN  [ok |-> TRUE, exc |-> "",
              data |-> <<age, a.engine_cc.v,
                         IF a.hand.k = "int" THEN a.hand.v ELSE None,
                         a.km.v, a.price.v,
                         Quot(a.km.v, age), Quot(a.price.v, a.engine_cc.v),
                         Quot(a.price.v, age), Quot(a.price.v, max_price),
                         Log1p(a.km.v), Log1p(a.price.v)>>]

\* lines 115-123: the array handed to model.predict, or the exception raised
\* on the way.  a holds the five arguments as values (None or int).
Features(a, max_price) ==
    IF a.year.k # "int" THEN [ok |-> FALSE, exc |-> "TypeError", data |-> <<>>]
    ELSE IF a.km.k # "int" THEN [ok |-> FALSE, exc |-> "TypeError", data |-> <<>>]
    ELSE IF a.price.k # "int" \/ a.engine_cc.k # "int"
         THEN [ok |-> FALSE, exc |-> "TypeError", data |-> <<>>]
    ELSE IF a.engine_cc.v = 0
         THEN [ok |-> FALSE, exc |-> "ZeroDivisionError", data |-> <<>>]
    ELSE LET age == ReferenceYear - a.year.v
             km_per_year == Quot(a.km.v, Max(1, age))
             price_per_cc == Quot(a.price.v, a.engine_cc.v)
             price_per_year == Quot(a.price.v, Max(1, age))
             normalized_price == Quot(a.price.v, max_price)
             log_km == Log1p(a.km.v)
             log_price == Log1p(a.price.v)
         IN  [ok |-> TRUE, exc |-> "",
              data |-> <<age, a.engine_cc.v,
                         IF a.hand.k = "int" THEN a.hand.v ELSE None,
                         a.km.v, a.price.v,
                         km_per_year, price_per_cc, price_per_year,
                         normalized_price, log_km, log_price>>]

\* Floats the model can return, in thousandths
Fin(v) == [k |-> "fin", v |-> v]
NaN == [k |-> "nan", v |-> 0]
PosInf == [k |-> "inf", v |-> 0]
NegInf == [k |-> "-inf", v |-> 0]
NoRating == [k |-> "none", v |-> 0]

\* np.clip(x, 0, 10): comparisons with NaN are false, so NaN passes through
Clip(x) ==
    CASE x.k = "nan" -> NaN
      [] x.k = "inf" -> Fin(10000)
      [] x.k = "-inf" -> Fin(0)
      [] x.v < 0 -> Fin(0)
      [] x.v > 10000 -> Fin(10000)
      [] OTHER -> x

\* round(float(x), 2): the values x can round to.  A decimal tie is decided
\* by the binary value of the float, so both neighbours are possible.
Round2(x) ==
    IF x.k # "fin" THEN {x}
    ELSE LET lo == x.v - (x.v % 10)
         IN  CASE x.v % 10 < 5 -> {Fin(lo)}
               [] x.v % 10 > 5 -> {Fin(lo + 10)}
               [] OTHER -> {Fin(lo), Fin(lo + 10)}

\* line 124: what predict_rating returns for the model output raw
Ratings(raw) == Round2(Clip(raw))

-----------------------------------------------------------------------------
(* Inputs: pages, request bodies, model outputs, datasets *)

\* a run of n whitespace characters
Gap(n) == [i \in 1..n |-> IF i % 2 = 1 THEN " " ELSE "\n"]

\* "MEHIR:" + value, and a bare amount followed by the shekel sign
PriceTexts(g) ==
    LET label == <<"mem", "het", "yod", "resh", ":">> \o Gap(g)
    IN  { <<>>,
          label \o <<"2", "5", ".", "0", "0", "0", " ", "shekel">>,
          label \o <<"5", "0", "0">>,
          label \o <<".">>,
          <<"3", "5", ",", "0", "0", "0", "rlm", "\n", " ", "shekel">> }

\* "SHANA:" + year, and bare years
YearTexts(g) ==
    LET label == <<"shin", "nun", "he", ":">> \o Gap(g)
    IN  { <<>>,
          label \o <<"2", "0", "1", "9">>,
          label \o <<"2", "0", "3", "0">>,
          <<"2", "0", "1", "9">>,
          <<"1", "9", "9", "8">> }

\* "MERHAQ:" / "NESIA" / "QYLWM:" + distance, and a distance followed by Q"M
KmTexts(g) ==
    { <<>>,
      <<"mem", "resh", "het", "qof", ":">> \o Gap(g) \o <<"8", ",", "0", "0", "0">>,
      <<"nun", "samekh", "yod", "ayin", "he">> \o Gap(g) \o <<"5", "0">>,
      <<"qof", "yod", "lamed", "vav", "mem", ":">> \o Gap(g) \o <<"9", ".", "0", "0", "0">>,
      <<"1", "2", ".", "5", "0", "0", " ", "qof", "gershayim", "mem">> }

\* "NEFAH MANOA:" + volume, and a volume followed by SM
EngineTexts(g) ==
    LET label == <<"nun", "pe", "het", " ", "mem", "nun", "vav", "ayin", ":">> \o Gap(g)
    IN  { <<>>,
          label \o <<"6", "0", "0">>,
          label \o <<"0", "0", "0">>,
          <<"1", "2", "5", " ", "samekh", "mem">> }

\* "YAD" + digit
HandTexts(g) ==
    { <<>>, <<"yod", "dalet">> \o Gap(g) \o <<"1">> }

RECURSIVE Join(_)
Join(parts) ==
    IF parts = <<>> THEN <<>>
    ELSE IF Head(parts) = <<>> THEN Join(Tail(parts))
    ELSE Head(parts) \o <<" ">> \o Join(Tail(parts))

\* the visible text of the pages a link can lead to
Pages ==
    { Join(<<p, y, k, e, h>>) :
        <<p, y, k, e, h>> \in UNION { PriceTexts(g) \X YearTexts(g) \X KmTexts(g)
                                       \X EngineTexts(g) \X HandTexts(g) : g \in 0..MaxGap } }

\* data[key] of a JSON body that lacks the key
Absent == [k |-> "absent", v |-> 0]

Bodies ==
    { [year |-> y, engine_cc |-> e, hand |-> h, km |-> IntVal(8000), price |-> IntVal(35000)] :
        y \in {IntVal(2020), IntVal(2025), IntVal(2030)},
        e \in {IntVal(600), IntVal(0)},
        h \in {IntVal(1), Absent} }

ModelOutputs ==
    { Fin(-1500), Fin(0), Fin(7254), Fin(7255), Fin(10000), Fin(12000),
      NaN, PosInf, NegInf }

\* df["price"].max() of the dataset file read at import
Datasets == {100000}

-----------------------------------------------------------------------------
(* The service *)

NoResponse == [kind |-> "none", rating |-> NoRating, data |-> NoData, error |-> ""]
RatingResponse(r) == [kind |-> "predicted_rating", rating |-> r, data |-> NoData, error |-> ""]
PartialResponse(d) == [kind |-> "partial", rating |-> NoRating, data |-> d, error |-> ""]
ErrorResponse(e) == [kind |-> "error", rating |-> NoRating, data |-> NoData, error |-> e]
\* the endpoint function falls off its end
NullResponse == [kind |-> "null", rating |-> NoRating, data |-> NoData, error |-> ""]
\* an exception that leaves the endpoint function
Unhandled(e) == [kind |-> "unhandled", rating |-> NoRating, data |-> NoData, error |-> e]

Init ==
    /\ maxPrice \in Datasets
    /\ pc = "idle"
    /\ path = "none"
    /\ page = <<>>
    /\ body = [key \in Keys |-> Absent]
    /\ fetches = 0
    /\ fetched = "no"
    /\ partial_data = Unbound
    /\ result = NoResult
    /\ calls = <<>>
    /\ data = <<>>
    /\ response = NoResponse

\* GET /predict/url?link=...: predict_from_url calls extract_data_from_url
GetPredictUrl(p) ==
    /\ pc = "idle"
    /\ pc' = "fetch"
    /\ path' = "url"
    /\ page' = p
    /\ UNCHANGED <<maxPrice, body, fetches, fetched, partial_data, result, calls, data, response>>

\* line 132: requests.get returns a response
FetchReturns ==
    /\ pc = "fetch"
    /\ fetches' = fetches + 1
    /\ fetched' = "ok"
    /\ pc' = "parse"
    /\ UNCHANGED <<maxPrice, path, page, body, partial_data, result, calls, data, response>>

\* OnFetchError with the exception swallowed: the try block carries on
OnFetchError_CarryOn(e) == [pc |-> "parse", result |-> NoResult]

\* where extract_data_from_url goes when requests.get raises: lines 163-164
OnFetchError(e) == [pc |-> "returned", result |-> ScrapingFailed(e)]

\* line 132: requests.get raises (connection error, or timeout after 10 s)
FetchRaises(e) ==
    /\ pc = "fetch"
    /\ fetches' = fetches + 1
    /\ fetched' = "failed"
    /\ pc' = OnFetchError(e).pc
    /\ result' = OnFetchError(e).result
    /\ UNCHANGED <<maxPrice, path, page, body, partial_data, calls, data, response>>

\* lines 133-164 for every page: what the try block makes of its text
Scraped == [p \in Pages |-> try_block(p)]

\* lines 133-164: parse, normalise, extract, classify
ExtractFields ==
    /\ pc = "parse"
    /\ partial_data' = Scraped[page].partial_data
    /\ result' = Scraped[page].result
    /\ pc' = "returned"
    /\ UNCHANGED <<maxPrice, path, page, body, fetches, fetched, calls, data, response>>

\* Branch with a partial result sent on to the predictor
Branch_PredictPartial(res) ==
    IF res.kind = "error" THEN "error" ELSE "predict"

\* lines 173-177: which branch predict_from_url takes
Branch(res) ==
    IF res.kind = "error" THEN "error"
    ELSE IF res.kind = "partial" THEN "partial"
    ELSE IF res.kind = "complete" THEN "predict"
    ELSE "none"

\* lines 173-180, up to the call of model.predict
predict_from_url ==
    /\ pc = "returned"
    /\ path = "url"
    /\ LET f == Features(result.data, maxPrice)
       IN  CASE Branch(result) = "error" ->
                  /\ response' = ErrorResponse(result.error)
                  /\ pc' = "done"
                  /\ UNCHANGED <<calls, data>>
             [] Branch(result) = "partial" ->
                  /\ response' = PartialResponse(result.data)
                  /\ pc' = "done"
                  /\ UNCHANGED <<calls, data>>
             [] Branch(result) = "predict" ->
                  /\ calls' = Append(calls, result.data)
                  /\ IF f.ok
                     THEN /\ data' = f.data
                          /\ pc' = "model"
                          /\ UNCHANGED response
                     ELSE /\ response' = Unhandled(f.exc)
                          /\ pc' = "done"
                          /\ UNCHANGED data
             [] OTHER ->
                  /\ response' = NullResponse
                  /\ pc' = "done"
                  /\ UNCHANGED <<calls, data>>
    /\ UNCHANGED <<maxPrice, path, page, body, fetches, fetched, partial_data, result>>

\* POST /predict/manual, lines 185-189, up to the call of model.predict
predict_manual(b) ==
    /\ pc = "idle"
    /\ path' = "manual"
    /\ body' = b
    /\ IF \E key \in Keys : b[key] = Absent
       THEN /\ response' = ErrorResponse("KeyError")
            /\ pc' = "done"
            /\ UNCHANGED <<calls, data>>
       ELSE LET f == Features(b, maxPrice)
            IN  /\ calls' = Append(calls, b)
                /\ IF f.ok
                   THEN /\ data' = f.data
                        /\ pc' = "model"
                        /\ UNCHANGED response
                   ELSE /\ response' = ErrorResponse(f.exc)
                        /\ pc' = "done"
                        /\ UNCHANGED data
    /\ UNCHANGED <<maxPrice, page, fetches, fetched, partial_data, result>>

\* line 124: model.predict returns raw; clip, round, answer
ModelReturns(raw) ==
    /\ pc = "model"
    /\ \E r \in Ratings(raw) : response' = RatingResponse(r)
    /\ pc' = "done"
    /\ UNCHANGED <<maxPrice, path, page, body, fetches, fetched, partial_data, result,
                   calls, data>>

\* line 124: model.predict raises; only predict_manual has a handler
ModelRaises ==
    /\ pc = "model"
    /\ response' = IF path = "manual" THEN ErrorResponse("PredictionFailed")
                   ELSE Unhandled("PredictionFailed")
    /\ pc' = "done"
    /\ UNCHANGED <<maxPrice, path, page, body, fetches, fetched, partial_data, result,
                   calls, data>>

\* the answer is sent; the server takes the next request
Finish ==
    /\ pc = "done"
    /\ pc' = "idle"
    /\ path' = "none"
    /\ page' = <<>>
    /\ body' = [key \in Keys |-> Absent]
    /\ fetches' = 0
    /\ fetched' = "no"
    /\ partial_data' = Unbound
    /\ result' = NoResult
    /\ calls' = <<>>
    /\ data' = <<>>
    /\ response' = NoResponse
    /\ UNCHANGED maxPrice

Next ==
    \/ \E p \in Pages : GetPredictUrl(p)
    \/ FetchReturns
    \/ \E e \in {"ConnectionError", "Timeout"} : FetchRaises(e)
    \/ ExtractFields
    \/ predict_from_url
    \/ \E b \in Bodies : predict_manual(b)
    \/ \E raw \in ModelOutputs : ModelReturns(raw)
    \/ ModelRaises
    \/ Finish

Spec == Init /\ [][Next]_vars

\* requests.get returns or raises within its timeout, and every other step
\* is straight-line code
FairSpec ==
    /\ Spec
    /\ WF_vars(FetchReturns \/ \E e \in {"ConnectionError", "Timeout"} : FetchRaises(e))
    /\ WF_vars(ExtractFields)
    /\ WF_vars(predict_from_url)
    /\ WF_vars((\E raw \in ModelOutputs : ModelReturns(raw)) \/ ModelRaises)
    /\ WF_vars(Finish)

-----------------------------------------------------------------------------
(* Properties *)

Resolved(d) == {key \in Keys : d[key].k = "int"}

Returned == pc \in {"returned", "model", "done"}

\* C1: once line 154 has bound the five field outcomes, the result is
\* Complete iff all five are resolved, the error "No valid fields found." iff
\* none is, and Partial otherwise; Partial carries every resolved value and
\* None for every unresolved field.
C1_Classification ==
    (Returned /\ partial_data # Unbound) =>
        LET n == Cardinality(Resolved(partial_data))
        IN  /\ result.kind \in {"complete", "partial", "error"}
            /\ (result.kind = "complete") <=> (n = 5)
            /\ (result.kind = "error") <=> (n = 0)
            /\ (result.kind = "partial") <=> (0 < n /\ n < 5)
            /\ result.kind = "error" => result.error = "No valid fields found."
            /\ result.kind \in {"complete", "partial"} =>
                 \A key \in Keys :
                    /\ key \in Resolved(partial_data) => result.data[key] = partial_data[key]
                    /\ key \notin Resolved(partial_data) => result.data[key] = None

C1_Witness ==
    /\ Returned
    /\ result.kind = "partial"
    /\ Resolved(partial_data) = {"price", "year", "engine_cc"}
    /\ result.data.km = None /\ result.data.hand = None

\* C2: on the URL path predict_rating is called only when the extraction
\* result is Complete, once, with the five extracted values; a Partial result
\* is answered as partial and an error result as error, without any call.
C2_PredictOnlyComplete ==
    path = "url" =>
        /\ calls # <<>> =>
             /\ result.kind = "complete"
             /\ calls = <<partial_data>>
             /\ Resolved(calls[1]) = Keys
        /\ data # <<>> => calls # <<>>
        /\ (pc = "done" /\ result.kind = "partial") =>
             response = PartialResponse(partial_data) /\ calls = <<>>
        /\ (pc = "done" /\ result.kind = "error") =>
             response = ErrorResponse(result.error) /\ calls = <<>>
        /\ response.kind = "predicted_rating" => result.kind = "complete"

C2_Witness ==
    /\ path = "url"
    /\ pc = "model"
    /\ result.kind = "complete"
    /\ calls = <<partial_data>>

\* C3: every request is answered with predicted_rating, partial or error and
\* no exception leaves the endpoint; an engine size of 0 is answered with an
\* error on both paths.
C3_NoUnhandledException ==
    /\ response.kind \in {"none", "predicted_rating", "partial", "error"}
    /\ (pc = "done" /\ calls # <<>> /\ calls[1].engine_cc = IntVal(0)) =>
          response.kind = "error"

\* C4: a year reported as resolved lies in 2000..2025, so every Complete
\* result has age >= 0.
C4_YearInRange ==
    (Returned /\ result.kind \in {"complete", "partial"}
        /\ result.data.year.k = "int") =>
            /\ 2000 <= result.data.year.v
            /\ result.data.year.v <= ReferenceYear

\* C5: a resolved km is >= 100 and a resolved price is >= 2000.
C5_PlausibilityFloors ==
    (Returned /\ result.kind \in {"complete", "partial"}) =>
        /\ result.data.km.k = "int" => result.data.km.v >= 100
        /\ result.data.price.k = "int" => result.data.price.v >= 2000

\* r'(20\d{2})'
BareYearPattern == Grp(Cat(<<Lit("2"), Lit("0"), Rep(Cls(Digit), 2, 2)>>))

YearLabel == Word(<<"shin", "nun", "he">>)

\* C6: when the text has no year keyword but holds a bare 20xx number in
\* 2000..2025, that number is the resolved year; without any 20xx number the
\* year is unresolved.
C6_BareYearFallback ==
    (pc = "returned" /\ partial_data # Unbound) =>
        LET text == Normalize(page)
            bare == Search(BareYearPattern, text)
        IN  /\ (~Search(YearLabel, text).found /\ bare.found
                    /\ int(bare.group).v <= ReferenceYear)
                 => partial_data.year = int(bare.group)
            /\ ~bare.found => partial_data.year = None

\* C7: predict_rating returns a number within [0, 10] or fails: a NaN or
\* infinite model output is never answered as a rating.
C7_RatingInRange ==
    response.kind = "predicted_rating" =>
        /\ response.rating.k = "fin"
        /\ 0 <= response.rating.v
        /\ response.rating.v <= 10000

Example ==
    [year |-> IntVal(2020), engine_cc |-> IntVal(600), hand |-> IntVal(1),
     km |-> IntVal(8000), price |-> IntVal(35000)]

\* C8: for engine_cc > 0 and year in 2000..2025 the transform does not raise
\* and the model gets 11 components in the order age, engine_cc, hand, km,
\* price, km/year, price/cc, price/year, normalised price, log km, log price,
\* with age = 2025 - year and the per-year ratios divided by max(1, age); the
\* example of the end-to-end scenario gives age 5, 1600 km/year, 7000/year.
C8_FeatureVector ==
    \A i \in 1..Len(calls) :
        LET a == calls[i]
        IN  (Resolved(a) = Keys /\ a.engine_cc.v > 0
                /\ a.year.v >= 2000 /\ a.year.v <= 2025) =>
            /\ response.error \notin {"TypeError", "ZeroDivisionError"}
            /\ Len(data) = 11
            /\ data[1] = 2025 - a.year.v
            /\ data[1] >= 0
            /\ data[2] = a.engine_cc.v
            /\ data[3] = a.hand.v
            /\ data[4] = a.km.v
            /\ data[5] = a.price.v
            /\ data[6] = Quot(a.km.v, IF data[1] >= 1 THEN data[1] ELSE 1)
            /\ data[7] = Quot(a.price.v, a.engine_cc.v)
            /\ data[8] = Quot(a.price.v, IF data[1] >= 1 THEN data[1] ELSE 1)
            /\ data[9] = Quot(a.price.v, maxPrice)
            /\ data[10] = Log1p(a.km.v)
            /\ data[11] = Log1p(a.price.v)
            /\ data[6].den >= 1 /\ data[8].den >= 1 /\ data[7].den > 0
            /\ a = Example =>
                 /\ data[1] = 5
                 /\ data[6].num = 1600 * data[6].den
                 /\ data[8].num = 7000 * data[8].den

C8_Witness ==
    /\ pc = "model"
    /\ calls = <<Example>>
    /\ Len(data) = 11
    /\ data[1] = 5

Unresolve(v) == IF v.k = "int" THEN v ELSE None

\* the five fields, each resolved on its own
Independent(text) ==
    [year |-> Unresolve(extract(YearPatterns, text)),
     engine_cc |-> Unresolve(extract(EnginePatterns, text)),
     hand |-> Unresolve(hand_of(text)),
     km |-> Unresolve(extract(KmPatterns, text)),
     price |-> Unresolve(extract(PricePatterns, text))]

\* C9: extraction never throws: a field whose match holds no digits is
\* unresolved, and the result is the classification of the five fields each
\* resolved on its own.
C9_ExtractorNeverThrows ==
    (pc = "returned" /\ fetched = "ok") =>
        /\ result.error # "Scraping failed"
        /\ result = Classify(Independent(Normalize(page)))

\* C10: one fetch per call and no retry; a failed fetch ends the call with an
\* error, without extraction, classification or prediction; and every call
\* that starts returns exactly one result.
C10_OneFetchOneOutcome ==
    /\ [](/\ fetches <= 1
          /\ pc \in {"parse", "returned"} => fetches = 1
          /\ fetched = "failed" =>
               /\ result.kind = "error"
               /\ result.error = "Scraping failed"
               /\ partial_data = Unbound
               /\ calls = <<>> /\ data = <<>>
               /\ response.kind \in {"none", "error"})
    /\ [][result.kind # "none" => (result' = result \/ pc' = "idle")]_vars
    /\ (pc = "fetch") ~> (pc = "returned" /\ result.kind \in {"complete", "partial", "error"})
    /\ (pc = "fetch") ~> (pc = "done" /\ response.kind # "none")

C10_Witness ==
    /\ fetched = "failed"
    /\ fetches = 1
    /\ pc = "done"
    /\ response = ErrorResponse("Scraping failed")

====
